---- MODULE Spec2Model ----
(***************************************************************************)
(* The library catalog of src/main.rs: struct Library with its two maps    *)
(* and two id counters, and the operations add_book, add_member,           *)
(* check_out_book, return_book, get_member_books and search_books.  Every  *)
(* operation is a                                                          *)
(* pure operator from a library value (and the call's arguments) to the    *)
(* library value after the call and the call's result; the actions apply   *)
(* the operators to the state variables.                                   *)
(***************************************************************************)
EXTENDS Integers, Sequences, FiniteSets, TLC

VARIABLES
    books,            \* Library.books: HashMap<u32, Book>
    members,          \* Library.members: HashMap<u32, Member>
    next_book_id,     \* Library.next_book_id: u32
    next_member_id,   \* Library.next_member_id: u32
    last,             \* the last call: operation, arguments, result
    pre,              \* the library value right before the last call
    issued,           \* the ids add_book and add_member have returned, in call order
    outstanding       \* book id -> member id of the successful check_out_book that
                      \* is the last successful check_out_book or return_book on
                      \* the book; no entry when there is none or it is a return_book

vars == <<books, members, next_book_id, next_member_id, last, pre, issued, outstanding>>

----------------------------------------------------------------------------
(* Bounds of the model. *)

\* add_book is called at most MaxBooks times under Spec
MaxBooks == 2
\* add_member is called at most MaxMembers times under Spec
MaxMembers == 2
\* SystemTime::now() returns a second in 0..MaxNow
MaxNow == 1
\* SpecShelf starts with ShelfBooks books and one member
ShelfBooks == 3
\* the id counters are IdBits wide (u32 in the source, scaled down);
\* 2^IdBits - 1 exceeds MaxBooks, MaxMembers and ShelfBooks
IdBits == 3

\* add_book is called at most SearchMaxBooks times under SpecSearch
SearchMaxBooks == 2

\* the largest value of an id counter (u32::MAX at the scaled width)
U32_MAX == (2 ^ IdBits) - 1

\* strings are sequences of characters
Titles == { <<"R", "u">> }
Authors == { <<"A">> }
Isbns == { <<"9">> }
Names == { <<"J">> }

\* the texts and the queries of SpecSearch
SearchTitles == { <<"R", "u">>, <<"p", "y">> }
SearchAuthors == { <<"A">> }
SearchIsbns == { <<"9", "X">>, <<"9">> }
Queries == { <<>>, <<"r", "U">>, <<"u", "R">>, <<"Y">>, <<"a">>, <<"X">>, <<"x">> }

\* the ids a caller passes: those that are assigned, and one that never is
BookIds == 1..(MaxBooks + 1)
MemberIds == 1..(MaxMembers + 1)
ShelfBookIds == 1..(ShelfBooks + 1)
ShelfMemberIds == 1..2
Times == 0..MaxNow

----------------------------------------------------------------------------
(* Values. *)

\* Option<u64>
None == <<>>
Some(x) == <<x>>

\* HashMap::new()
EmptyMap == [k \in {} |-> k]

\* HashMap::insert(key, value): adds the key or replaces its value
insert(map, key, value) ==
    [k \in (DOMAIN map) \cup {key} |-> IF k = key THEN value ELSE map[k]]

\* retain_ne done with Vec::swap_remove: the last element takes the place of
\* the first occurrence of v
retain_ne_swap(s, v) ==
    IF \A i \in 1..Len(s) : s[i] # v THEN s
    ELSE LET i == CHOOSE i \in 1..Len(s) :
                      s[i] = v /\ \A j \in 1..(i - 1) : s[j] # v
         IN  [j \in 1..(Len(s) - 1) |-> IF j = i THEN s[Len(s)] ELSE s[j]]

\* Vec::retain(|&x| x != v)
retain_ne(s, v) == SelectSeq(s, LAMBDA x : x # v)

\* Vec::contains(&v)
contains(s, v) == \E i \in 1..Len(s) : s[i] = v

\* char::to_lowercase, on the characters of the model's texts
to_lowercase_char(c) ==
    CASE c = "R" -> "r"
      [] c = "U" -> "u"
      [] c = "Y" -> "y"
      [] c = "A" -> "a"
      [] c = "X" -> "x"
      [] OTHER -> c

\* str::to_lowercase
to_lowercase(s) == [i \in 1..Len(s) |-> to_lowercase_char(s[i])]

\* str::contains(pat): pat occurs in s as a run of consecutive characters
str_contains(s, pat) ==
    \E i \in 0..(Len(s) - Len(pat)) : SubSeq(s, i + 1, i + Len(pat)) = pat

\* the orders in which HashMap::values() may visit the keys of map
IterationOrders(map) ==
    {o \in [1..Cardinality(DOMAIN map) -> DOMAIN map] :
        \A i, j \in 1..Cardinality(DOMAIN map) : i # j => o[i] # o[j]}

\* u32 addition and subtraction with overflow checks off
wrapping_add(x, y) == (x + y) % (U32_MAX + 1)
wrapping_sub(x, y) == (x - y) % (U32_MAX + 1)

\* two_weeks with the days of one week
two_weeks_as_one == 60 * 60 * 24 * 7

\* let two_weeks = 60 * 60 * 24 * 14
two_weeks == 60 * 60 * 24 * 14

\* the error strings
ErrBookNotFound == "Book not found"
ErrMemberNotFound == "Member not found"
ErrNotAvailable == "Book is not available"
ErrNotBorrowed == "This member has not borrowed this book"

\* a call's outcome: Ok(value), Err(message), or a panic
Ok(lib, id, out) ==
    [lib |-> lib, ok |-> TRUE, err |-> "", panic |-> FALSE, id |-> id, out |-> out]
Err(lib, msg) ==
    [lib |-> lib, ok |-> FALSE, err |-> msg, panic |-> FALSE, id |-> 0, out |-> <<>>]
Panic(lib) ==
    [lib |-> lib, ok |-> FALSE, err |-> "", panic |-> TRUE, id |-> 0, out |-> <<>>]

----------------------------------------------------------------------------
(* The operations, as functions of the library value. *)

\* Member::new
Member_new(id, name) == [id |-> id, name |-> name, borrowed_books |-> <<>>]

\* Library::new
Library_new ==
    [books |-> EmptyMap, members |-> EmptyMap, next_book_id |-> 1, next_member_id |-> 1]

\* add_book incrementing the counter before it builds and stores the record
add_book_increment_first(lib, title, author, isbn, checks) ==
    LET l1 == [lib EXCEPT !.next_book_id = wrapping_add(@, 1)]
        book == [id |-> l1.next_book_id, title |-> title, author |-> author,
                 isbn |-> isbn, available |-> TRUE, due_date |-> None]
        l2 == [l1 EXCEPT !.books = insert(@, l1.next_book_id, book)]
    IN  IF checks /\ lib.next_book_id = U32_MAX THEN Panic(lib)
        ELSE Ok(l2, l1.next_book_id, <<>>)

\* add_book returning the id of a stored book with the same isbn instead of
\* storing a second one
add_book_dedup_isbn(lib, title, author, isbn, checks) ==
    LET book == [id |-> lib.next_book_id, title |-> title, author |-> author,
                 isbn |-> isbn, available |-> TRUE, due_date |-> None]
        l1 == [lib EXCEPT !.books = insert(@, lib.next_book_id, book)]
        l2 == [l1 EXCEPT !.next_book_id = wrapping_add(@, 1)]
        same == {b \in DOMAIN lib.books : lib.books[b].isbn = isbn}
    IN  IF same # {} THEN Ok(lib, CHOOSE b \in same : TRUE, <<>>)
        ELSE IF checks /\ lib.next_book_id = U32_MAX THEN Panic(l1)
        ELSE Ok(l2, wrapping_sub(l2.next_book_id, 1), <<>>)

\* Library::add_book.  checks: the build's overflow checks.  The record is
\* inserted before the counter is incremented, so a panicking increment
\* leaves the record in the map.
add_book(lib, title, author, isbn, checks) ==
    LET book == [id |-> lib.next_book_id, title |-> title, author |-> author,
                 isbn |-> isbn, available |-> TRUE, due_date |-> None]
        l1 == [lib EXCEPT !.books = insert(@, lib.next_book_id, book)]
        l2 == [l1 EXCEPT !.next_book_id = wrapping_add(@, 1)]
    IN  IF checks /\ lib.next_book_id = U32_MAX THEN Panic(l1)
        ELSE Ok(l2, wrapping_sub(l2.next_book_id, 1), <<>>)

\* add_member taking the member's id from the book counter
add_member_book_counter(lib, name, checks) ==
    LET member == Member_new(lib.next_book_id, name)
        l1 == [lib EXCEPT !.members = insert(@, lib.next_book_id, member)]
        l2 == [l1 EXCEPT !.next_book_id = wrapping_add(@, 1)]
    IN  IF checks /\ lib.next_book_id = U32_MAX THEN Panic(l1)
        ELSE Ok(l2, wrapping_sub(l2.next_book_id, 1), <<>>)

\* Library::add_member
add_member(lib, name, checks) ==
    LET member == Member_new(lib.next_member_id, name)
        l1 == [lib EXCEPT !.members = insert(@, lib.next_member_id, member)]
        l2 == [l1 EXCEPT !.next_member_id = wrapping_add(@, 1)]
    IN  IF checks /\ lib.next_member_id = U32_MAX THEN Panic(l1)
        ELSE Ok(l2, wrapping_sub(l2.next_member_id, 1), <<>>)

\* check_out_book without the push onto the member's list
check_out_book_no_push(lib, book_id, member_id, now) ==
    IF book_id \notin DOMAIN lib.books THEN Err(lib, ErrBookNotFound)
    ELSE IF member_id \notin DOMAIN lib.members THEN Err(lib, ErrMemberNotFound)
    ELSE IF ~lib.books[book_id].available THEN Err(lib, ErrNotAvailable)
    ELSE Ok([lib EXCEPT
                !.books[book_id].available = FALSE,
                !.books[book_id].due_date = Some(now + two_weeks)],
            0, <<>>)

\* check_out_book without the availability check
check_out_book_skip_available(lib, book_id, member_id, now) ==
    IF book_id \notin DOMAIN lib.books THEN Err(lib, ErrBookNotFound)
    ELSE IF member_id \notin DOMAIN lib.members THEN Err(lib, ErrMemberNotFound)
    ELSE Ok([lib EXCEPT
                !.books[book_id].available = FALSE,
                !.books[book_id].due_date = Some(now + two_weeks),
                !.members[member_id].borrowed_books = Append(@, book_id)],
            0, <<>>)

\* check_out_book looking the member up before the book
check_out_book_member_first(lib, book_id, member_id, now) ==
    IF member_id \notin DOMAIN lib.members THEN Err(lib, ErrMemberNotFound)
    ELSE IF book_id \notin DOMAIN lib.books THEN Err(lib, ErrBookNotFound)
    ELSE IF ~lib.books[book_id].available THEN Err(lib, ErrNotAvailable)
    ELSE Ok([lib EXCEPT
                !.books[book_id].available = FALSE,
                !.books[book_id].due_date = Some(now + two_weeks),
                !.members[member_id].borrowed_books = Append(@, book_id)],
            0, <<>>)

\* check_out_book pushing the id at the front of the member's list
check_out_book_push_front(lib, book_id, member_id, now) ==
    IF book_id \notin DOMAIN lib.books THEN Err(lib, ErrBookNotFound)
    ELSE IF member_id \notin DOMAIN lib.members THEN Err(lib, ErrMemberNotFound)
    ELSE IF ~lib.books[book_id].available THEN Err(lib, ErrNotAvailable)
    ELSE Ok([lib EXCEPT
                !.books[book_id].available = FALSE,
                !.books[book_id].due_date = Some(now + two_weeks),
                !.members[member_id].borrowed_books = <<book_id>> \o @],
            0, <<>>)

\* Library::check_out_book; now is SystemTime::now() in seconds since the epoch
check_out_book(lib, book_id, member_id, now) ==
    IF book_id \notin DOMAIN lib.books THEN Err(lib, ErrBookNotFound)
    ELSE IF member_id \notin DOMAIN lib.members THEN Err(lib, ErrMemberNotFound)
    ELSE IF ~lib.books[book_id].available THEN Err(lib, ErrNotAvailable)
    ELSE Ok([lib EXCEPT
                !.books[book_id].available = FALSE,
                !.books[book_id].due_date = Some(now + two_weeks),
                !.members[member_id].borrowed_books = Append(@, book_id)],
            0, <<>>)

\* return_book deciding on the book's availability flag instead of the
\* member's list
return_book_by_available(lib, book_id, member_id) ==
    IF book_id \notin DOMAIN lib.books THEN Err(lib, ErrBookNotFound)
    ELSE IF member_id \notin DOMAIN lib.members THEN Err(lib, ErrMemberNotFound)
    ELSE IF lib.books[book_id].available THEN Err(lib, ErrNotBorrowed)
    ELSE Ok([lib EXCEPT
                !.books[book_id].available = TRUE,
                !.books[book_id].due_date = None,
                !.members[member_id].borrowed_books = retain_ne(@, book_id)],
            0, <<>>)

\* return_book updating the book record before it looks at the member's list
return_book_touch_first(lib, book_id, member_id) ==
    IF book_id \notin DOMAIN lib.books THEN Err(lib, ErrBookNotFound)
    ELSE IF member_id \notin DOMAIN lib.members THEN Err(lib, ErrMemberNotFound)
    ELSE LET l1 == [lib EXCEPT !.books[book_id].available = TRUE,
                               !.books[book_id].due_date = None]
         IN  IF ~contains(lib.members[member_id].borrowed_books, book_id)
                 THEN Err(l1, ErrNotBorrowed)
             ELSE Ok([l1 EXCEPT
                         !.members[member_id].borrowed_books = retain_ne(@, book_id)],
                     0, <<>>)

\* return_book leaving the due date in place
return_book_keep_due(lib, book_id, member_id) ==
    IF book_id \notin DOMAIN lib.books THEN Err(lib, ErrBookNotFound)
    ELSE IF member_id \notin DOMAIN lib.members THEN Err(lib, ErrMemberNotFound)
    ELSE IF ~contains(lib.members[member_id].borrowed_books, book_id)
        THEN Err(lib, ErrNotBorrowed)
    ELSE Ok([lib EXCEPT
                !.books[book_id].available = TRUE,
                !.members[member_id].borrowed_books = retain_ne(@, book_id)],
            0, <<>>)

\* return_book marking every book of the map as returned
return_book_resets_all(lib, book_id, member_id) ==
    IF book_id \notin DOMAIN lib.books THEN Err(lib, ErrBookNotFound)
    ELSE IF member_id \notin DOMAIN lib.members THEN Err(lib, ErrMemberNotFound)
    ELSE IF ~contains(lib.members[member_id].borrowed_books, book_id)
        THEN Err(lib, ErrNotBorrowed)
    ELSE Ok([lib EXCEPT
                !.books = [b \in DOMAIN @ |->
                              [@[b] EXCEPT !.available = TRUE, !.due_date = None]],
                !.members[member_id].borrowed_books = retain_ne(@, book_id)],
            0, <<>>)

\* return_book leaving the id in the member's list
return_book_no_retain(lib, book_id, member_id) ==
    IF book_id \notin DOMAIN lib.books THEN Err(lib, ErrBookNotFound)
    ELSE IF member_id \notin DOMAIN lib.members THEN Err(lib, ErrMemberNotFound)
    ELSE IF ~contains(lib.members[member_id].borrowed_books, book_id)
        THEN Err(lib, ErrNotBorrowed)
    ELSE Ok([lib EXCEPT
                !.books[book_id].available = TRUE,
                !.books[book_id].due_date = None],
            0, <<>>)

\* Library::return_book
return_book(lib, book_id, member_id) ==
    IF book_id \notin DOMAIN lib.books THEN Err(lib, ErrBookNotFound)
    ELSE IF member_id \notin DOMAIN lib.members THEN Err(lib, ErrMemberNotFound)
    ELSE IF ~contains(lib.members[member_id].borrowed_books, book_id)
        THEN Err(lib, ErrNotBorrowed)
    ELSE Ok([lib EXCEPT
                !.books[book_id].available = TRUE,
                !.books[book_id].due_date = None,
                !.members[member_id].borrowed_books = retain_ne(@, book_id)],
            0, <<>>)

\* get_member_books walking the books map in id order and keeping the
\* member's books, instead of walking the member's list
get_member_books_by_id(lib, member_id) ==
    IF member_id \notin DOMAIN lib.members THEN Err(lib, ErrMemberNotFound)
    ELSE LET found == SelectSeq([i \in 1..U32_MAX |-> i],
                                LAMBDA id : /\ id \in DOMAIN lib.books
                                            /\ contains(lib.members[member_id].borrowed_books, id))
         IN  Ok(lib, 0, [i \in 1..Len(found) |-> lib.books[found[i]]])

\* Library::get_member_books: filter_map over the borrowed ids
get_member_books(lib, member_id) ==
    IF member_id \notin DOMAIN lib.members THEN Err(lib, ErrMemberNotFound)
    ELSE LET found == SelectSeq(lib.members[member_id].borrowed_books,
                                LAMBDA id : id \in DOMAIN lib.books)
         IN  Ok(lib, 0, [i \in 1..Len(found) |-> lib.books[found[i]]])

\* search_books comparing the lowercased title and author with the query as
\* typed
search_books_raw_query(lib, query, order) ==
    LET visited == [i \in 1..Len(order) |-> lib.books[order[i]]]
        matches(book) ==
            \/ str_contains(to_lowercase(book.title), query)
            \/ str_contains(to_lowercase(book.author), query)
            \/ str_contains(book.isbn, query)
    IN  Ok(lib, 0, SelectSeq(visited, matches))

\* Library::search_books; order is the order in which books.values() visits
\* the map
search_books(lib, query, order) ==
    LET visited == [i \in 1..Len(order) |-> lib.books[order[i]]]
        matches(book) ==
            \/ str_contains(to_lowercase(book.title), to_lowercase(query))
            \/ str_contains(to_lowercase(book.author), to_lowercase(query))
            \/ str_contains(book.isbn, query)
    IN  Ok(lib, 0, SelectSeq(visited, matches))

----------------------------------------------------------------------------
(* The state machine. *)

\* the library value held by the state variables
Catalog ==
    [books |-> books, members |-> members,
     next_book_id |-> next_book_id, next_member_id |-> next_member_id]

\* the record of a call: now is the clock value the call read (0 when it
\* read none), id the id it returned, out the books it returned
Call(op, book_id, member_id, text, now, r) ==
    [op |-> op, book_id |-> book_id, member_id |-> member_id, text |-> text,
     now |-> now, ok |-> r.ok, err |-> r.err, panic |-> r.panic, id |-> r.id,
     out |-> r.out]

\* the ids returned so far, after a call of op with outcome r
Issue(ids, op, r) ==
    IF op = "add_book" /\ r.ok THEN [ids EXCEPT !.book = Append(@, r.id)]
    ELSE IF op = "add_member" /\ r.ok THEN [ids EXCEPT !.member = Append(@, r.id)]
    ELSE ids

\* the outstanding checkouts, after a call of op with outcome r
Outstand(map, op, book_id, member_id, r) ==
    IF op = "check_out_book" /\ r.ok THEN insert(map, book_id, member_id)
    ELSE IF op = "return_book" /\ r.ok
        THEN [b \in (DOMAIN map) \ {book_id} |-> map[b]]
    ELSE map

\* the state after a call with outcome r
Apply(op, book_id, member_id, text, now, r) ==
    /\ books' = r.lib.books
    /\ members' = r.lib.members
    /\ next_book_id' = r.lib.next_book_id
    /\ next_member_id' = r.lib.next_member_id
    /\ last' = Call(op, book_id, member_id, text, now, r)
    /\ pre' = Catalog
    /\ issued' = Issue(issued, op, r)
    /\ outstanding' = Outstand(outstanding, op, book_id, member_id, r)

Init ==
    /\ books = Library_new.books
    /\ members = Library_new.members
    /\ next_book_id = Library_new.next_book_id
    /\ next_member_id = Library_new.next_member_id
    /\ last = Call("new", 0, 0, <<>>, 0, Ok(Library_new, 0, <<>>))
    /\ pre = Library_new
    /\ issued = [book |-> <<>>, member |-> <<>>]
    /\ outstanding = EmptyMap

\* The build's overflow checks are drawn with the call: they decide the
\* outcome of the one call whose increment overflows, after which a build
\* with checks has panicked.
AddBookFrom(T, A, I) ==
    \E t \in T, a \in A, i \in I, checks \in BOOLEAN :
        /\ ~last.panic
        /\ Apply("add_book", 0, 0, <<t, a, i>>, 0, add_book(Catalog, t, a, i, checks))

AddBookCall == AddBookFrom(Titles, Authors, Isbns)

AddMemberCall ==
    \E n \in Names, checks \in BOOLEAN :
        /\ ~last.panic
        /\ Apply("add_member", 0, 0, <<n>>, 0, add_member(Catalog, n, checks))

\* the clock is read only once the three validations have passed
CheckOutBookAt(B, M, T) ==
    \E b \in B, m \in M, now \in T :
        LET r == check_out_book(Catalog, b, m, now)
        IN  /\ ~last.panic
            /\ Apply("check_out_book", b, m, <<>>, IF r.ok THEN now ELSE 0, r)

CheckOutBookCall(B, M) == CheckOutBookAt(B, M, Times)

ReturnBookCall(B, M) ==
    \E b \in B, m \in M :
        /\ ~last.panic
        /\ Apply("return_book", b, m, <<>>, 0, return_book(Catalog, b, m))

GetMemberBooksCall(M) ==
    \E m \in M :
        /\ ~last.panic
        /\ Apply("get_member_books", 0, m, <<>>, 0, get_member_books(Catalog, m))

SearchBooksCall ==
    \E q \in Queries, order \in IterationOrders(books) :
        /\ ~last.panic
        /\ Apply("search_books", 0, 0, <<q>>, 0, search_books(Catalog, q, order))

(* Spec: every operation, from Library::new(), with at most MaxBooks books *)
(* and MaxMembers members.                                                 *)

AddBook == Len(issued.book) < MaxBooks /\ AddBookCall

AddMember == Len(issued.member) < MaxMembers /\ AddMemberCall

CheckOutBook == CheckOutBookCall(BookIds, MemberIds)

ReturnBook == ReturnBookCall(BookIds, MemberIds)

GetMemberBooks == GetMemberBooksCall(MemberIds)

Next == AddBook \/ AddMember \/ CheckOutBook \/ ReturnBook \/ GetMemberBooks

Spec == Init /\ [][Next]_vars

(* SpecWrap: add_book and add_member alone, called until the counters have *)
(* overflowed and the first ids come round again.                          *)

AddBookWrap == Len(issued.book) < U32_MAX + 2 /\ AddBookCall

AddMemberWrap == Len(issued.member) < U32_MAX + 2 /\ AddMemberCall

NextWrap == AddBookWrap \/ AddMemberWrap

SpecWrap == Init /\ [][NextWrap]_vars

(* SpecShelf: checkouts and returns by one member of a library that holds  *)
(* ShelfBooks books, the state after ShelfBooks add_book calls and one     *)
(* add_member call.                                                        *)

\* the outcome of n add_book calls from Library::new(): the library and the
\* ids returned
RECURSIVE Stock(_)
Stock(n) ==
    IF n = 0 THEN [lib |-> Library_new, ids |-> <<>>]
    ELSE LET s == Stock(n - 1)
             r == add_book(s.lib, CHOOSE t \in Titles : TRUE,
                           CHOOSE a \in Authors : TRUE,
                           CHOOSE i \in Isbns : TRUE, FALSE)
         IN  [lib |-> r.lib, ids |-> Append(s.ids, r.id)]

InitShelf ==
    LET s == Stock(ShelfBooks)
        n == CHOOSE n \in Names : TRUE
        r == add_member(s.lib, n, FALSE)
    IN  /\ books = r.lib.books
        /\ members = r.lib.members
        /\ next_book_id = r.lib.next_book_id
        /\ next_member_id = r.lib.next_member_id
        /\ last = Call("add_member", 0, 0, <<n>>, 0, r)
        /\ pre = s.lib
        /\ issued = [book |-> s.ids, member |-> <<r.id>>]
        /\ outstanding = EmptyMap

ShelfCheckOutBook == CheckOutBookCall(ShelfBookIds, ShelfMemberIds)

ShelfReturnBook == ReturnBookCall(ShelfBookIds, ShelfMemberIds)

ShelfGetMemberBooks == GetMemberBooksCall(ShelfMemberIds)

NextShelf == ShelfCheckOutBook \/ ShelfReturnBook \/ ShelfGetMemberBooks

SpecShelf == InitShelf /\ [][NextShelf]_vars

(* SpecSearch: searches of a library of at most SearchMaxBooks books with   *)
(* differing titles, authors and isbns, some of them checked out by the    *)
(* one member.                                                             *)

SearchAddBook ==
    /\ Len(issued.book) < SearchMaxBooks
    /\ AddBookFrom(SearchTitles, SearchAuthors, SearchIsbns)

SearchAddMember == Len(issued.member) < 1 /\ AddMemberCall

SearchCheckOutBook == CheckOutBookAt(1..SearchMaxBooks, {1}, {0})

SearchBooks == SearchBooksCall

NextSearch == SearchAddBook \/ SearchAddMember \/ SearchCheckOutBook \/ SearchBooks

SpecSearch == Init /\ [][NextSearch]_vars

----------------------------------------------------------------------------
(* The properties. *)

\* the number of occurrences of v in s
Occurrences(s, v) == Cardinality({i \in 1..Len(s) : s[i] = v})

\* the members whose borrowed_books list holds book b
Holders(b) == {m \in DOMAIN members : Occurrences(members[m].borrowed_books, b) > 0}

\* s without its elements equal to v, the others in their order
RECURSIVE Without(_, _)
Without(s, v) ==
    IF s = <<>> THEN <<>>
    ELSE IF Head(s) = v THEN Without(Tail(s), v)
    ELSE <<Head(s)>> \o Without(Tail(s), v)

\* C1: in every reachable state, for every book: available is false iff
\* due_date is set, and iff exactly one member's borrowed_books holds its id.
C1_UnavailableIffDueIffOneHolder ==
    \A b \in DOMAIN books :
        /\ (~books[b].available) <=> (books[b].due_date # None)
        /\ (~books[b].available) <=> (Cardinality(Holders(b)) = 1)

\* a book has just been returned while another one is checked out
C1_Witness ==
    /\ last.op = "return_book" /\ last.ok
    /\ \E b \in DOMAIN books : ~books[b].available /\ Cardinality(Holders(b)) = 1
    /\ books[last.book_id].available

\* C2: in every reachable state each book id occurs at most once in total
\* over all members' borrowed_books lists.
C2_IdAtMostOnceOverAllLists ==
    \A b \in BookIds :
        /\ Cardinality(Holders(b)) <= 1
        /\ \A m \in DOMAIN members : Occurrences(members[m].borrowed_books, b) <= 1

\* a second checkout of a borrowed book has just been refused, for its
\* borrower or for another member, while both books are in lists
C2_Witness ==
    /\ last.op = "check_out_book" /\ last.err = ErrNotAvailable
    /\ Cardinality(Holders(last.book_id)) = 1
    /\ \A b \in DOMAIN books : Cardinality(Holders(b)) = 1
    /\ Cardinality(DOMAIN books) = MaxBooks

\* C3: check_out_book validates book existence, then member existence, then
\* availability, each with its own error, and succeeds in exactly the
\* remaining case.
C3_CheckOutValidationOrder ==
    last.op = "check_out_book" =>
        LET hasBook == last.book_id \in DOMAIN pre.books
            hasMember == last.member_id \in DOMAIN pre.members
        IN  /\ ~hasBook => (~last.ok /\ last.err = ErrBookNotFound)
            /\ (hasBook /\ ~hasMember) => (~last.ok /\ last.err = ErrMemberNotFound)
            /\ (hasBook /\ hasMember /\ ~pre.books[last.book_id].available)
                   => (~last.ok /\ last.err = ErrNotAvailable)
            /\ last.ok <=>
                   (hasBook /\ hasMember /\ pre.books[last.book_id].available)

\* a checkout of a borrowed book for an absent member has just been refused
\* with the member-not-found error
C3_Witness ==
    /\ last.op = "check_out_book"
    /\ last.book_id \in DOMAIN pre.books
    /\ ~pre.books[last.book_id].available
    /\ last.member_id \notin DOMAIN pre.members
    /\ last.err = ErrMemberNotFound

\* C4: return_book returns book-not-found when the book is absent,
\* member-not-found when the book exists and the member is absent,
\* not-borrowed-by-member when both exist and the member's list lacks the
\* book, and succeeds in exactly the remaining case.
C4_ReturnValidation ==
    last.op = "return_book" =>
        LET hasBook == last.book_id \in DOMAIN pre.books
            hasMember == last.member_id \in DOMAIN pre.members
            borrowed ==
                Occurrences(pre.members[last.member_id].borrowed_books, last.book_id) > 0
        IN  /\ ~hasBook => (~last.ok /\ last.err = ErrBookNotFound)
            /\ (hasBook /\ ~hasMember) => (~last.ok /\ last.err = ErrMemberNotFound)
            /\ (hasBook /\ hasMember /\ ~borrowed)
                   => (~last.ok /\ last.err = ErrNotBorrowed)
            /\ last.ok <=> (hasBook /\ hasMember /\ borrowed)

\* a member has just been refused the return of a book that another member
\* has checked out
C4_Witness ==
    /\ last.op = "return_book"
    /\ last.err = ErrNotBorrowed
    /\ last.book_id \in DOMAIN books
    /\ ~books[last.book_id].available
    /\ Holders(last.book_id) # {}
    /\ last.member_id \notin Holders(last.book_id)

\* C5: a call of check_out_book, return_book or get_member_books that
\* returns an error leaves books, members and both counters as they were.
C5_ErrorLeavesCatalogUnchanged ==
    (last.op \in {"check_out_book", "return_book", "get_member_books"} /\ ~last.ok)
        => Catalog = pre

\* a return has just been refused while a book is checked out
C5_Witness ==
    /\ last.op = "return_book" /\ ~last.ok
    /\ last.book_id \in DOMAIN books
    /\ last.member_id \in DOMAIN members
    /\ \E b \in DOMAIN books : ~books[b].available

\* C6: in every reachable state, for every book, member and time for which
\* check_out_book succeeds, return_book of the same book and member on the
\* resulting library succeeds and yields the library before the checkout.
C6_CheckOutThenReturnRestores ==
    \A b \in BookIds, m \in MemberIds, now \in Times :
        LET r1 == check_out_book(Catalog, b, m, now)
        IN  r1.ok =>
                LET r2 == return_book(r1.lib, b, m)
                IN  r2.ok /\ r2.lib = Catalog

\* a book has just been returned, the library before the return is the one a
\* checkout leaves from the present library, and other books are checked out
C6_Witness ==
    /\ last.op = "return_book" /\ last.ok
    /\ \E now \in Times :
           LET r1 == check_out_book(Catalog, last.book_id, last.member_id, now)
           IN  r1.ok /\ r1.lib = pre
    /\ members[last.member_id].borrowed_books # <<>>

\* C7: after a successful check_out_book at time t the book is unavailable,
\* its due date is t + 1209600, and the member's list is its previous value
\* with the book id appended, holding it exactly once.
C7_CheckOutEffect ==
    (last.op = "check_out_book" /\ last.ok) =>
        /\ books[last.book_id].available = FALSE
        /\ books[last.book_id].due_date = Some(last.now + 1209600)
        /\ members[last.member_id].borrowed_books
               = Append(pre.members[last.member_id].borrowed_books, last.book_id)
        /\ Occurrences(members[last.member_id].borrowed_books, last.book_id) = 1

\* a book has just been checked out at time 1 by a member who holds another
C7_Witness ==
    /\ last.op = "check_out_book" /\ last.ok
    /\ last.now = 1
    /\ pre.members[last.member_id].borrowed_books # <<>>

\* C8: after a successful return_book the book is available with no due
\* date, and the member's list is its previous value without the book id,
\* the other ids in their order.
C8_ReturnEffect ==
    (last.op = "return_book" /\ last.ok) =>
        /\ books[last.book_id].available = TRUE
        /\ books[last.book_id].due_date = None
        /\ members[last.member_id].borrowed_books
               = Without(pre.members[last.member_id].borrowed_books, last.book_id)

\* the first of three borrowed books has just been returned
C8_Witness ==
    /\ last.op = "return_book" /\ last.ok
    /\ Len(pre.members[last.member_id].borrowed_books) = 3
    /\ pre.members[last.member_id].borrowed_books[1] = last.book_id
    /\ Len(members[last.member_id].borrowed_books) = 2

\* C9: the k-th call of add_book returns k and the k-th call of add_member
\* returns k, whatever is called in between; the new book is stored under
\* its id, available and with no due date, the new member with an empty list.
C9_SequentialIds ==
    /\ \A k \in 1..Len(issued.book) : issued.book[k] = k
    /\ \A k \in 1..Len(issued.member) : issued.member[k] = k
    /\ last.op = "add_book" =>
           /\ last.ok /\ last.id = Len(issued.book)
           /\ last.id \in DOMAIN books
           /\ books[last.id] = [id |-> last.id, title |-> last.text[1],
                                author |-> last.text[2], isbn |-> last.text[3],
                                available |-> TRUE, due_date |-> None]
    /\ last.op = "add_member" =>
           /\ last.ok /\ last.id = Len(issued.member)
           /\ last.id \in DOMAIN members
           /\ members[last.id] = [id |-> last.id, name |-> last.text[1],
                                  borrowed_books |-> <<>>]

\* the second member has just been added to a library whose only book is
\* checked out
C9_Witness ==
    /\ last.op = "add_member" /\ last.id = 2
    /\ issued.book = <<1>>
    /\ ~books[1].available

\* C10: with fixed-width counters, each counter only increases, no add call
\* returns an id an earlier add call of its kind returned, and no add call
\* replaces a record.
C10_CountersIncreaseIdsFresh ==
    /\ \A i, j \in 1..Len(issued.book) : i # j => issued.book[i] # issued.book[j]
    /\ \A i, j \in 1..Len(issued.member) : i # j => issued.member[i] # issued.member[j]
    /\ last.op = "add_book" =>
           /\ next_book_id >= pre.next_book_id
           /\ pre.next_book_id \notin DOMAIN pre.books
    /\ last.op = "add_member" =>
           /\ next_member_id >= pre.next_member_id
           /\ pre.next_member_id \notin DOMAIN pre.members

\* C11: get_member_books of an existing member returns one book record per
\* entry of the member's borrowed_books, the i-th being the record of the i-th
\* id (none skipped; the empty sequence for an empty list); of an absent
\* member it returns the member-not-found error; it changes no state.
C11_MemberBooksInListOrder ==
    last.op = "get_member_books" =>
        /\ Catalog = pre
        /\ last.member_id \notin DOMAIN members
               => (~last.ok /\ last.err = ErrMemberNotFound)
        /\ last.member_id \in DOMAIN members =>
               LET list == members[last.member_id].borrowed_books
               IN  /\ last.ok
                   /\ Len(last.out) = Len(list)
                   /\ \A i \in 1..Len(list) :
                          /\ list[i] \in DOMAIN books
                          /\ last.out[i] = books[list[i]]
                          /\ last.out[i].id = list[i]

\* the books of a member who holds three, checked out in an order that is
\* not the order of their ids, have just been listed
C11_Witness ==
    /\ last.op = "get_member_books" /\ last.ok
    /\ Len(last.out) = 3
    /\ last.out[1].id > last.out[2].id

\* p occurs in s at consecutive positions
Infix(p, s) ==
    \E i \in 0..Len(s) :
        /\ i + Len(p) <= Len(s)
        /\ \A k \in 1..Len(p) : s[i + k] = p[k]

\* the books a search for q is to return
Wanted(q) ==
    {b \in DOMAIN books :
        \/ Infix(to_lowercase(q), to_lowercase(books[b].title))
        \/ Infix(to_lowercase(q), to_lowercase(books[b].author))
        \/ Infix(q, books[b].isbn)}

\* C12: search_books(q) returns, each once and no other, the books whose
\* lowercased title or author contains the lowercased q or whose isbn
\* contains q as typed; the empty query returns every book; availability
\* plays no part and the call changes no state.
C12_SearchReturnsExactlyTheMatches ==
    last.op = "search_books" =>
        LET q == last.text[1]
        IN  /\ last.ok
            /\ Catalog = pre
            /\ Len(last.out) = Cardinality(Wanted(q))
            /\ {last.out[i] : i \in 1..Len(last.out)} = {books[b] : b \in Wanted(q)}
            /\ q = <<>> => Len(last.out) = Cardinality(DOMAIN books)

\* a search for "rU" in a library of two books has just returned one book,
\* titled "Ru" and checked out
C12_Witness ==
    /\ last.op = "search_books"
    /\ last.text = << <<"r", "U">> >>
    /\ Cardinality(DOMAIN books) = 2
    /\ Len(last.out) = 1
    /\ last.out[1].title = <<"R", "u">>
    /\ ~last.out[1].available

\* C13: a successful check_out_book or return_book changes only the
\* available and due_date fields of its book and the borrowed_books list of
\* its member: every other field of the two, every other book and member,
\* the key sets and both counters stay as they were.
C13_CheckOutReturnFrame ==
    (last.op \in {"check_out_book", "return_book"} /\ last.ok) =>
        /\ DOMAIN books = DOMAIN pre.books
        /\ DOMAIN members = DOMAIN pre.members
        /\ next_book_id = pre.next_book_id
        /\ next_member_id = pre.next_member_id
        /\ \A b \in DOMAIN books : b # last.book_id => books[b] = pre.books[b]
        /\ \A m \in DOMAIN members : m # last.member_id => members[m] = pre.members[m]
        /\ books[last.book_id].id = pre.books[last.book_id].id
        /\ books[last.book_id].title = pre.books[last.book_id].title
        /\ books[last.book_id].author = pre.books[last.book_id].author
        /\ books[last.book_id].isbn = pre.books[last.book_id].isbn
        /\ members[last.member_id].id = pre.members[last.member_id].id
        /\ members[last.member_id].name = pre.members[last.member_id].name

\* a member has just returned a book while the other member holds the other
\* book
C13_Witness ==
    /\ last.op = "return_book" /\ last.ok
    /\ \E b \in DOMAIN books, m \in DOMAIN members :
           /\ b # last.book_id /\ m # last.member_id
           /\ ~books[b].available
           /\ members[m].borrowed_books = <<b>>

\* C14: in every reachable state, for every book that is not available,
\* return_book succeeds for exactly one member, the one whose successful
\* check_out_book was the last successful operation on the book; for every
\* other member it fails and leaves the library, and so the book, as it is.
C14_OnlyTheBorrowerCanReturn ==
    \A b \in DOMAIN books :
        ~books[b].available =>
            /\ b \in DOMAIN outstanding
            /\ outstanding[b] \in DOMAIN members
            /\ \A m \in MemberIds :
                   LET r == return_book(Catalog, b, m)
                   IN  /\ r.ok <=> (m = outstanding[b])
                       /\ ~r.ok => (r.lib = Catalog /\ ~r.lib.books[b].available)

\* a member who holds one book has just been refused the return of the
\* other book, which the other member has checked out
C14_Witness ==
    /\ last.op = "return_book" /\ ~last.ok
    /\ last.book_id \in DOMAIN outstanding
    /\ last.member_id \in DOMAIN members
    /\ outstanding[last.book_id] # last.member_id
    /\ members[last.member_id].borrowed_books # <<>>
    /\ ~books[last.book_id].available

\* C15: for every book the successful check_out_book and return_book calls
\* alternate, beginning with a checkout: a checkout succeeds only when the
\* last successful call on the book is not a checkout, a return only when it
\* is one.
C15_CheckOutAndReturnAlternate ==
    [][ /\ (last'.op = "check_out_book" /\ last'.ok)
               => last'.book_id \notin DOMAIN outstanding
        /\ (last'.op = "return_book" /\ last'.ok)
               => last'.book_id \in DOMAIN outstanding ]_vars

\* a book has just been returned while the other book is still checked out
C15_Witness ==
    /\ last.op = "return_book" /\ last.ok
    /\ last.book_id \notin DOMAIN outstanding
    /\ DOMAIN outstanding # {}
    /\ pre.books[last.book_id].due_date = Some(1 + two_weeks)

\* C16: in every reachable state, with the counters below their maximum, the
\* keys of books are 1..next_book_id-1 and the keys of members
\* 1..next_member_id-1, every record's id is its key, every borrowed id is a
\* key of books, and the last call has removed no book and no member.
C16_KeysAreTheIssuedIds ==
    /\ DOMAIN books = 1..(next_book_id - 1)
    /\ DOMAIN members = 1..(next_member_id - 1)
    /\ \A b \in DOMAIN books : books[b].id = b
    /\ \A m \in DOMAIN members :
           /\ members[m].id = m
           /\ \A i \in 1..Len(members[m].borrowed_books) :
                  members[m].borrowed_books[i] \in DOMAIN books
    /\ DOMAIN pre.books \subseteq DOMAIN books
    /\ DOMAIN pre.members \subseteq DOMAIN members

\* the second book has just been added to a library with two members, one
\* of whom holds the first book
C16_Witness ==
    /\ last.op = "add_book"
    /\ DOMAIN books = {1, 2}
    /\ DOMAIN members = {1, 2}
    /\ \E m \in DOMAIN members : members[m].borrowed_books = <<1>>

\* C17: add_book changes only the books map, by one new entry, and
\* next_book_id; add_member only the members map, by one new entry, and
\* next_member_id.  Neither looks for duplicates: a book added with the title,
\* author and isbn of a stored one gets a record and an id of its own.
C17_AddFrame ==
    /\ last.op = "add_book" =>
           /\ members = pre.members
           /\ next_member_id = pre.next_member_id
           /\ last.id \notin DOMAIN pre.books
           /\ DOMAIN books = DOMAIN pre.books \cup {last.id}
           /\ \A b \in DOMAIN pre.books : books[b] = pre.books[b]
           /\ next_book_id # pre.next_book_id
           /\ \A b \in DOMAIN pre.books : books[b].id # books[last.id].id
    /\ last.op = "add_member" =>
           /\ books = pre.books
           /\ next_book_id = pre.next_book_id
           /\ last.id \notin DOMAIN pre.members
           /\ DOMAIN members = DOMAIN pre.members \cup {last.id}
           /\ \A m \in DOMAIN pre.members : members[m] = pre.members[m]
           /\ next_member_id # pre.next_member_id

\* a book has just been added with the title, author and isbn of the first
\* book, which a member has checked out
C17_Witness ==
    /\ last.op = "add_book" /\ last.id = 2
    /\ ~books[1].available
    /\ <<books[1].title, books[1].author, books[1].isbn>> = last.text
    /\ <<books[2].title, books[2].author, books[2].isbn>> = last.text
    /\ \E m \in DOMAIN members : members[m].borrowed_books = <<1>>

====
